---- MODULE Spec2Model ----
(***************************************************************************)
(* Model of clicycle's Table component (components/table.py): the plain    *)
(* render path and the interactive paginated render loop, together with    *)
(* the Stream that renders elements with automatic lead-in spacing.        *)
(*                                                                         *)
(* Python values are modelled as follows.                                  *)
(*   - Optional values (page_size, the Stream's previous element) are      *)
(*     sequences of length 0 (None) or 1 (the value).                      *)
(*   - A row (a dict) is a record [keys, id]: keys is the ordered key      *)
(*     list of the dict, and the value stored under key k of row id is     *)
(*     the pair <<id, k>>.                                                 *)
(*   - console is the list of console.print calls; prompts is the list of  *)
(*     interactive_select calls, each with its label, its option list and  *)
(*     the number of console.print calls made before it.                   *)
(*   - last and trail are history: last holds what the Table.render call   *)
(*     before the current one printed, asked and was answered; trail lists *)
(*     the elements the Stream has finished rendering, each with the       *)
(*     previous element tracked and the console length when it began.      *)
(* The render call blocks inside interactive_select, so it is split at     *)
(* that suspension point: one action runs from the call to the first       *)
(* prompt (or to the return), one action per answer runs to the next       *)
(* prompt (or to the return).                                              *)
(***************************************************************************)
EXTENDS Integers, Sequences, FiniteSets, TLC

VARIABLES data, page_size, theme, prev, console, prompts, pc, err,
          current_page, total_pages, viaStream, calls, elems,
          mark, pmark, answers, allOffered, last, trail

vars == <<data, page_size, theme, prev, console, prompts, pc, err,
          current_page, total_pages, viaStream, calls, elems,
          mark, pmark, answers, allOffered, last, trail>>

(* ------------------------------ bounds --------------------------------- *)
MaxRows == 5
MaxPageSize == 3
MaxPrompts == 3
MaxCalls == 1
MaxElems == 1
MaxLines == 1
MaxStream == 5

(* --------------------------- small helpers ----------------------------- *)
Min(a, b) == IF a < b THEN a ELSE b
Max(a, b) == IF a > b THEN a ELSE b

\* Python's seq[start:end] for a list, negative indices included.
PySlice(s, start, end) ==
    LET n  == Len(s)
        lo == IF start < 0 THEN Max(start + n, 0) ELSE Min(start, n)
        hi == IF end < 0 THEN Max(end + n, 0) ELSE Min(end, n)
    IN  IF lo >= hi THEN <<>> ELSE SubSeq(s, lo + 1, hi)

\* Ceil rounding down, as a // b does.
CeilRoundsDown(a, b) == a \div b

\* math.ceil(a / b) for a >= 0 and b > 0.
Ceil(a, b) == IF a % b = 0 THEN a \div b ELSE (a \div b) + 1

(* ------------------------------ inputs --------------------------------- *)
Patterns == {"uniform", "ragged", "sparse"}

\* The ordered key list of row i under a key pattern.
RowKeys(i, pat) ==
    CASE pat = "uniform" -> <<"name", "age">>
      [] pat = "ragged"  -> IF i % 2 = 1 THEN <<"name">> ELSE <<"name", "age">>
      [] OTHER           -> IF i = 1 THEN <<"name", "age">> ELSE <<"name">>

Dataset(L, pat) == [i \in 1..L |-> [keys |-> RowKeys(i, pat), id |-> i]]

Datasets == {Dataset(L, pat) : L \in 0..MaxRows, pat \in Patterns}

PageSizes == {<<>>} \cup {<<n>> : n \in 0..MaxPageSize}

\* theme.spacing: a partial two-level mapping of kinds to blank-line counts.
NoRules == [k \in {} |-> 0]
TableRules == [k \in {"table"} |-> [j \in {"info"} |-> 2]]
Themes == {NoRules, TableRules}

\* Theme() with theme.spacing.info = {"error": 2}, and a fuller rule set
\* with a 0 entry, entries after a spinner and entries naming the spacer.
TestRules == [k \in {"info"} |-> [j \in {"error"} |-> 2]]
MixedRules ==
    ("info"   :> ("error" :> 0 @@ "spinner" :> 2 @@ "spacer" :> 2)) @@
    ("error"  :> ("info" :> 3 @@ "spinner" :> 0)) @@
    ("spacer" :> ("info" :> 2 @@ "spinner" :> 2))
StreamThemes == {NoRules, TestRules, MixedRules}
SpacingDefault == 1

Range(s) == {s[i] : i \in DOMAIN s}

(* ------------------------------- Table --------------------------------- *)
\* str(row.get(key, "")): the empty string is <<>>, str(v) is <<"str", v>>.
Cell(row, key) ==
    IF key \in Range(row.keys) THEN <<"str", <<row.id, key>>>> ELSE <<>>

\* self.title, fixed at construction.
TableTitle == "Users"

\* BuildTable with the columns taken from the first row of the slice.
BuildTableOwnColumns(d, rows) ==
    LET columns == rows[1].keys
    IN  [kind    |-> "table",
         title   |-> TableTitle,
         columns |-> columns,
         rows    |-> rows,
         cells   |-> [i \in 1..Len(rows) |->
                        [j \in 1..Len(columns) |-> Cell(rows[i], columns[j])]]]

\* Table._build_table(rows): the columns always come from self.data[0].
BuildTable(d, rows) ==
    LET columns == d[1].keys
    IN  [kind    |-> "table",
         title   |-> TableTitle,
         columns |-> columns,
         rows    |-> rows,
         cells   |-> [i \in 1..Len(rows) |->
                        [j \in 1..Len(columns) |-> Cell(rows[i], columns[j])]]]

\* PageRows with the slice one row too long.
PageRowsOverlap(d, ps, cp) ==
    LET start == cp * ps
        end   == start + ps + 1
    IN  PySlice(d, start, end)

\* The rows of page cp: self.data[start:end].
PageRows(d, ps, cp) ==
    LET start == cp * ps
        end   == start + ps
    IN  PySlice(d, start, end)

\* Footer with the zero-based page index.
FooterZeroBased(cp, tp, n) ==
    [kind  |-> "text",
     text  |-> <<"  Page ", cp, " of ", tp, " (", n, " items)">>,
     style |-> "dim"]

\* The footer line of a page: the f-string and its style.
Footer(cp, tp, n) ==
    [kind  |-> "text",
     text  |-> <<"  Page ", cp + 1, " of ", tp, " (", n, " items)">>,
     style |-> "dim"]

\* Options with Next offered on every page, the last one included.
OptionsAlwaysNext(cp, tp) ==
    <<[label |-> "Next →", value |-> "next"]>>
    \o (IF cp > 0 THEN <<[label |-> "← Previous", value |-> "previous"]>> ELSE <<>>)
    \o <<[label |-> "Done", value |-> "done"]>>

\* Options with Previous appended before Next.
OptionsPreviousFirst(cp, tp) ==
    (IF cp > 0 THEN <<[label |-> "← Previous", value |-> "previous"]>> ELSE <<>>)
    \o (IF cp < tp - 1 THEN <<[label |-> "Next →", value |-> "next"]>> ELSE <<>>)
    \o <<[label |-> "Done", value |-> "done"]>>

\* The option list built for a page.
Options(cp, tp) ==
    (IF cp < tp - 1 THEN <<[label |-> "Next →", value |-> "next"]>> ELSE <<>>)
    \o (IF cp > 0 THEN <<[label |-> "← Previous", value |-> "previous"]>> ELSE <<>>)
    \o <<[label |-> "Done", value |-> "done"]>>

\* PageStep with the footer line left out.
PageStepNoFooter(con, cp, tp) ==
    /\ console' = Append(con, BuildTable(data, PageRows(data, page_size[1], cp)))
    /\ prompts' = Append(prompts, [label   |-> "",
                                   options |-> Options(cp, tp),
                                   printed |-> Len(con) + 1])
    /\ current_page' = cp
    /\ pc' = "prompt"

\* One pass of the while loop up to the blocking interactive_select call.
PageStep(con, cp, tp) ==
    /\ console' = con \o <<BuildTable(data, PageRows(data, page_size[1], cp)),
                           Footer(cp, tp, Len(data))>>
    /\ prompts' = Append(prompts, [label   |-> "",
                                   options |-> Options(cp, tp),
                                   printed |-> Len(con) + 2])
    /\ current_page' = cp
    /\ pc' = "prompt"

TableElement == [kind |-> "table", transient |-> FALSE]

\* Stream.render's last step once the element's render has returned.
SetPrevious(via, el) == prev' = IF via THEN <<el>> ELSE prev

\* SpacingBefore giving the first element the default spacing.
SpacingBeforeFirstDefault(p, cur) ==
    IF p = <<>> THEN SpacingDefault
    ELSE LET rules == IF cur \in DOMAIN theme THEN theme[cur] ELSE NoRules
             v == IF p[1].kind \in DOMAIN rules
                  THEN rules[p[1].kind] ELSE SpacingDefault
         IN  IF p[1].transient THEN Max(0, v - 1) ELSE v

\* SpacingBefore falling back to 0 where no rule is stored.
SpacingBeforeDefaultZero(p, cur) ==
    IF p = <<>> THEN 0
    ELSE LET rules == IF cur \in DOMAIN theme THEN theme[cur] ELSE NoRules
             v == IF p[1].kind \in DOMAIN rules
                  THEN rules[p[1].kind] ELSE 0
         IN  IF p[1].transient THEN Max(0, v - 1) ELSE v

\* SpacingBefore ignoring the transient flag of the predecessor.
SpacingBeforeNoReduction(p, cur) ==
    IF p = <<>> THEN 0
    ELSE LET rules == IF cur \in DOMAIN theme THEN theme[cur] ELSE NoRules
         IN  IF p[1].kind \in DOMAIN rules
             THEN rules[p[1].kind] ELSE SpacingDefault

\* SpacingBefore looking the rule up under the previous kind first.
SpacingBeforePreviousFirst(p, cur) ==
    IF p = <<>> THEN 0
    ELSE LET rules == IF p[1].kind \in DOMAIN theme THEN theme[p[1].kind] ELSE NoRules
             v == IF cur \in DOMAIN rules THEN rules[cur] ELSE SpacingDefault
         IN  IF p[1].transient THEN Max(0, v - 1) ELSE v

\* Component.get_spacing_before for a non-bypassing element of kind cur:
\* the rule stored for cur under the previous kind, else the default, less
\* one line (not below 0) after a transient predecessor.
SpacingBefore(p, cur) ==
    IF p = <<>> THEN 0
    ELSE LET rules == IF cur \in DOMAIN theme THEN theme[cur] ELSE NoRules
             v == IF p[1].kind \in DOMAIN rules
                  THEN rules[p[1].kind] ELSE SpacingDefault
         IN  IF p[1].transient THEN Max(0, v - 1) ELSE v

\* The table as an element of the Stream.
TableStreamElement ==
    [kind |-> "table", transient |-> FALSE, bypass |-> FALSE,
     deferred |-> FALSE, lines |-> 0]

\* The Stream notes a table it has finished rendering; m is the console
\* length when Table.render was entered, after the lead-in.
TrailTable(via, m) ==
    trail' = IF via
             THEN Append(trail, [el     |-> TableStreamElement,
                                 before |-> prev,
                                 at     |-> m - SpacingBefore(prev, "table")])
             ELSE trail

\* RenderEmpty printing a table that has no columns and no rows.
RenderEmptyPrintsFrame(con, via) ==
    /\ console' = Append(con, [kind |-> "table", title |-> TableTitle,
                               columns |-> <<>>, rows |-> <<>>, cells |-> <<>>])
    /\ pc' = "returned"
    /\ SetPrevious(via, TableElement)
    /\ TrailTable(via, Len(con))
    /\ UNCHANGED <<prompts, err, current_page, total_pages>>

\* if not self.data: return
RenderEmpty(con, via) ==
    /\ console' = con
    /\ pc' = "returned"
    /\ SetPrevious(via, TableElement)
    /\ TrailTable(via, Len(con))
    /\ UNCHANGED <<prompts, err, current_page, total_pages>>

\* FitsOnePage with < where the code has <=.
FitsOnePageStrict(d, ps) == ps = <<>> \/ Len(d) < ps[1]

\* self.page_size is None or len(self.data) <= self.page_size
FitsOnePage(d, ps) == ps = <<>> \/ Len(d) <= ps[1]

\* console.print(self._build_table(self.data)); return
RenderWhole(con, via) ==
    /\ console' = Append(con, BuildTable(data, data))
    /\ pc' = "returned"
    /\ SetPrevious(via, TableElement)
    /\ TrailTable(via, Len(con))
    /\ UNCHANGED <<prompts, err, current_page, total_pages>>

\* RenderPaginated with the page index kept from the call before.
RenderPaginatedResumes(con, via) ==
    IF page_size[1] = 0
    THEN /\ console' = con
         /\ pc' = "raised"
         /\ err' = "ZeroDivisionError"
         /\ UNCHANGED <<prompts, prev, current_page, total_pages, trail>>
    ELSE /\ total_pages' = Ceil(Len(data), page_size[1])
         /\ PageStep(con, current_page, Ceil(Len(data), page_size[1]))
         /\ UNCHANGED <<prev, err, trail>>

\* Table._render_paginated up to its first prompt.
RenderPaginated(con, via) ==
    IF page_size[1] = 0
    THEN \* math.ceil(len(self.data) / 0) raises ZeroDivisionError
         /\ console' = con
         /\ pc' = "raised"
         /\ err' = "ZeroDivisionError"
         /\ UNCHANGED <<prompts, prev, current_page, total_pages, trail>>
    ELSE /\ total_pages' = Ceil(Len(data), page_size[1])
         /\ PageStep(con, 0, Ceil(Len(data), page_size[1]))
         /\ UNCHANGED <<prev, err, trail>>

\* What a Table.render call prints: table bodies and dim footer lines.
IsTableOutput(e) == e.kind = "table" \/ (e.kind = "text" /\ e.style = "dim")

\* The record of the call that is ending as the next one begins.
CallRecord ==
    [shown   |-> SelectSeq(SubSeq(console, mark + 1, Len(console)), IsTableOutput),
     asked   |-> [i \in 1..(Len(prompts) - pmark) |-> prompts[pmark + i].options],
     answers |-> answers,
     rows    |-> data,
     size    |-> page_size]

\* Table.render(console), entered with con already printed.
TableRenderFrom(con, via) ==
    /\ calls' = calls + 1
    /\ last' = IF calls = 0 THEN <<>> ELSE <<CallRecord>>
    /\ mark' = Len(con)
    /\ pmark' = Len(prompts)
    /\ answers' = <<>>
    /\ allOffered' = TRUE
    /\ viaStream' = via
    /\ IF data = <<>> THEN RenderEmpty(con, via)
       ELSE IF FitsOnePage(data, page_size) THEN RenderWhole(con, via)
       ELSE RenderPaginated(con, via)

NoCallRunning == pc \in {"idle", "returned", "raised"}

\* A direct call table.render(console).
TableRender ==
    /\ NoCallRunning
    /\ calls < MaxCalls
    /\ Len(prompts) < MaxPrompts
    /\ TableRenderFrom(console, FALSE)
    /\ UNCHANGED <<data, page_size, theme, elems>>

(* ------------------------------ Stream --------------------------------- *)
\* One blank line on the console, and n of them.
Blank == [kind |-> "blank"]
BlankLines(n) == [i \in 1..n |-> Blank]

\* SpacerSpacingBefore falling through to the base class's rule lookup.
SpacerSpacingInherited(p) == SpacingBefore(p, "spacer")

\* Spacer.get_spacing_before: always 0, whatever the previous element p.
SpacerSpacingBefore(p) == 0

\* Spacer(theme): lines defaults to 1.
DefaultLines == 1

\* Spacer.render: one console.print() per line.
SpacerRender(lines) == [i \in 1..lines |-> Blank]

\* Elements of the Stream: a message of some kind, and Spacer(lines).
MessageElement(kind) ==
    [kind |-> kind, transient |-> FALSE, bypass |-> FALSE,
     deferred |-> FALSE, lines |-> 0]
SpacerElement(lines) ==
    [kind |-> "spacer", transient |-> FALSE, bypass |-> TRUE,
     deferred |-> FALSE, lines |-> lines]

\* What the Stream keeps of an element: its kind and its transient flag.
Tracked(el) == [kind |-> el.kind, transient |-> el.transient]

\* The element's own get_spacing_before, given the tracked previous element.
LeadIn(p, el) ==
    IF el.kind = "spacer" THEN SpacerSpacingBefore(p) ELSE SpacingBefore(p, el.kind)

\* The element's own render.
ElementOutput(el) ==
    IF el.kind = "spacer" THEN SpacerRender(el.lines)
    ELSE <<[kind |-> "text", text |-> <<"msg">>, style |-> el.kind]>>

\* NextPrevious tracking the Spacer like any other element.
NextPreviousAlways(p, el) == <<Tracked(el)>>

\* The tracked previous element after el has been rendered.
NextPrevious(p, el) == IF el.bypass THEN p ELSE <<Tracked(el)>>

\* Stream.render(el) for an element that renders in one go: lead-in blank
\* lines, the element's output, then the pointer update.
StreamRenderSimple(el) ==
    /\ console' = console \o BlankLines(LeadIn(prev, el)) \o ElementOutput(el)
    /\ prev' = NextPrevious(prev, el)
    /\ trail' = Append(trail, [el |-> el, before |-> prev, at |-> Len(console)])
    /\ pc' = "idle"
    /\ UNCHANGED <<data, page_size, theme, prompts, err, current_page, total_pages,
                   viaStream, calls, mark, pmark, answers, allOffered, last>>

\* Rendering the table through the Stream: lead-in spacing, then render.
StreamRenderTable ==
    /\ NoCallRunning
    /\ calls < MaxCalls
    /\ Len(prompts) < MaxPrompts
    /\ TableRenderFrom(console \o BlankLines(SpacingBefore(prev, "table")), TRUE)
    /\ UNCHANGED <<data, page_size, theme, elems>>

\* Rendering an info message through the Stream.
StreamRenderInfo ==
    /\ NoCallRunning
    /\ elems < MaxElems
    /\ elems' = elems + 1
    /\ StreamRenderSimple(MessageElement("info"))

\* Rendering Spacer(lines) through the Stream: no lead-in, pointer untouched.
StreamRenderSpacer(lines) ==
    /\ NoCallRunning
    /\ elems < MaxElems
    /\ elems' = elems + 1
    /\ StreamRenderSimple(SpacerElement(lines))

\* A spinner: its rendering is driven from outside the Stream; transient
\* when it disappears on completion.
SpinnerElement(t) ==
    [kind |-> "spinner", transient |-> t, bypass |-> FALSE,
     deferred |-> TRUE, lines |-> 0]

\* What a finished spinner leaves on the console.
DeferredOutput(el) ==
    IF el.transient THEN <<>>
    ELSE <<[kind |-> "text", text |-> <<"msg">>, style |-> el.kind]>>

\* Stream.render(el) in a stream of plain elements.
StreamRender(el) ==
    /\ NoCallRunning
    /\ Len(trail) < MaxStream
    /\ StreamRenderSimple(el)
    /\ UNCHANGED elems

StreamRenderMessage == \E k \in {"info", "error", "custom"} : StreamRender(MessageElement(k))
StreamRenderSpacerLines == \E n \in 1..MaxLines : StreamRender(SpacerElement(n))

\* A spinner finishes: the Stream emitted no spacing and did not render it;
\* the spinner sets the tracked previous element itself.
SpinnerCompletes(t) ==
    /\ NoCallRunning
    /\ Len(trail) < MaxStream
    /\ console' = console \o DeferredOutput(SpinnerElement(t))
    /\ prev' = <<Tracked(SpinnerElement(t))>>
    /\ trail' = Append(trail, [el |-> SpinnerElement(t), before |-> prev,
                               at |-> Len(console)])
    /\ pc' = "idle"
    /\ UNCHANGED <<data, page_size, theme, prompts, err, current_page, total_pages,
                   viaStream, calls, elems, mark, pmark, answers, allOffered, last>>

\* render_with_spacing treating a deferred element like any other one.
StreamRenderDeferredRendered ==
    /\ NoCallRunning
    /\ Len(trail) < MaxStream
    /\ console' = console \o BlankLines(SpacingBefore(prev, "spinner"))
                          \o <<[kind |-> "text", text |-> <<"msg">>, style |-> "spinner"]>>
    /\ pc' = "deferred"
    /\ UNCHANGED <<data, page_size, theme, prev, prompts, err, current_page,
                   total_pages, viaStream, calls, elems, mark, pmark, answers,
                   allOffered, last, trail>>

\* render_with_spacing on an element whose class sets deferred_render:
\* returns at once; the element now runs on its own.
StreamRenderDeferred ==
    /\ NoCallRunning
    /\ Len(trail) < MaxStream
    /\ pc' = "deferred"
    /\ UNCHANGED <<data, page_size, theme, prev, console, prompts, err,
                   current_page, total_pages, viaStream, calls, elems, mark,
                   pmark, answers, allOffered, last, trail>>

\* The deferred element finishes and sets the tracked previous element.
DeferredCompletes(t) ==
    /\ pc = "deferred"
    /\ console' = console \o DeferredOutput(SpinnerElement(t))
    /\ prev' = <<Tracked(SpinnerElement(t))>>
    /\ trail' = Append(trail, [el |-> SpinnerElement(t), before |-> prev,
                               at |-> Len(console)])
    /\ pc' = "idle"
    /\ UNCHANGED <<data, page_size, theme, prompts, err, current_page, total_pages,
                   viaStream, calls, elems, mark, pmark, answers, allOffered, last>>

\* Messages handed to Text(theme, message): a string, the empty string, and
\* a value that is not a string.
Payloads ==
    {[isStr |-> TRUE, len |-> 5], [isStr |-> TRUE, len |-> 0],
     [isStr |-> FALSE, len |-> 0]}

\* TextValidate letting the empty string through.
TextValidateTypeOnly(m) == IF ~m.isStr THEN "TypeError" ELSE ""

\* Text.__init__'s check of its message: the exception raised, "" for none.
TextValidate(m) ==
    IF ~m.isStr THEN "TypeError"
    ELSE IF m.len = 0 THEN "ValueError" ELSE ""

\* Text(theme, m) built and handed to the Stream.
StreamRenderText(m) ==
    /\ NoCallRunning
    /\ Len(trail) < MaxStream
    /\ IF TextValidate(m) # ""
       THEN /\ pc' = "raised"
            /\ err' = TextValidate(m)
            /\ UNCHANGED <<data, page_size, theme, prev, console, prompts,
                           current_page, total_pages, viaStream, calls, elems,
                           mark, pmark, answers, allOffered, last, trail>>
       ELSE /\ StreamRenderSimple(MessageElement("text"))
            /\ UNCHANGED elems

(* ------------------------- the navigation loop ------------------------- *)
\* The values of an option list.
OptionValues(opts) == {opts[i].value : i \in DOMAIN opts}

\* Turn with 'previous' leaving the page where it is.
TurnForwardOnly(cp, choice) == IF choice = "next" THEN cp + 1 ELSE cp

\* The page after a 'next' or a 'previous' answer.
Turn(cp, choice) == IF choice = "next" THEN cp + 1 ELSE cp - 1

\* Continues with 'previous' ending the loop like any other value.
ContinuesOnNextOnly(choice) == choice = "next"

\* The loop goes on after 'next' and 'previous'; anything else breaks.
Continues(choice) == choice \in {"next", "previous"}

Choices == {"next", "previous", "done", "other"}

\* interactive_select returns choice; the loop runs to its next prompt.
Answer(choice) ==
    /\ pc = "prompt"
    /\ choice \in {"next", "previous"} => Len(prompts) < MaxPrompts
    /\ answers' = Append(answers, choice)
    /\ allOffered' = (allOffered /\ choice \in OptionValues(prompts[Len(prompts)].options))
    /\ IF Continues(choice)
       THEN /\ PageStep(console, Turn(current_page, choice), total_pages)
            /\ UNCHANGED <<prev, trail>>
       ELSE /\ pc' = "returned"
            /\ SetPrevious(viaStream, TableElement)
            /\ TrailTable(viaStream, mark)
            /\ UNCHANGED <<console, prompts, current_page>>
    /\ UNCHANGED <<data, page_size, theme, err, total_pages, viaStream,
                   calls, elems, mark, pmark, last>>

\* ChooserRaises with the failure caught and the whole row set printed.
ChooserRaisesFallback ==
    /\ pc = "prompt"
    /\ pc' = "returned"
    /\ console' = Append(console, BuildTable(data, data))
    /\ SetPrevious(viaStream, TableElement)
    /\ TrailTable(viaStream, mark)
    /\ UNCHANGED <<data, page_size, theme, prompts, err, current_page, total_pages,
                   viaStream, calls, elems, mark, pmark, answers, allOffered, last>>

\* interactive_select raises: nothing in render or _render_paginated catches
\* it, so it leaves both and reaches the caller of render.
ChooserRaises ==
    /\ pc = "prompt"
    /\ pc' = "raised"
    /\ err' = "ChooserError"
    /\ UNCHANGED <<data, page_size, theme, prev, console, prompts, current_page,
                   total_pages, viaStream, calls, elems, mark, pmark, answers,
                   allOffered, last, trail>>

(* --------------------------- specification ----------------------------- *)
Init ==
    /\ data \in Datasets
    /\ page_size \in PageSizes
    /\ theme \in Themes
    /\ prev = <<>>
    /\ console = <<>>
    /\ prompts = <<>>
    /\ pc = "idle"
    /\ err = ""
    /\ current_page = 0
    /\ total_pages = 0
    /\ viaStream = FALSE
    /\ calls = 0
    /\ elems = 0
    /\ mark = 0
    /\ pmark = 0
    /\ answers = <<>>
    /\ allOffered = TRUE
    /\ last = <<>>
    /\ trail = <<>>

Next ==
    \/ TableRender
    \/ StreamRenderTable
    \/ StreamRenderInfo
    \/ StreamRenderSpacer(DefaultLines)
    \/ \E c \in Choices : Answer(c)
    \/ ChooserRaises

Spec == Init /\ [][Next]_vars

\* A fresh Stream that renders messages, spacers and spinners.
SpacingInit ==
    /\ data = <<>>
    /\ page_size = <<>>
    /\ theme \in StreamThemes
    /\ prev = <<>>
    /\ console = <<>>
    /\ prompts = <<>>
    /\ pc = "idle"
    /\ err = ""
    /\ current_page = 0
    /\ total_pages = 0
    /\ viaStream = FALSE
    /\ calls = 0
    /\ elems = 0
    /\ mark = 0
    /\ pmark = 0
    /\ answers = <<>>
    /\ allOffered = TRUE
    /\ last = <<>>
    /\ trail = <<>>

SpacingNext ==
    \/ StreamRenderMessage
    \/ StreamRenderSpacerLines
    \/ \E t \in BOOLEAN : SpinnerCompletes(t)

SpacingSpec == SpacingInit /\ [][SpacingNext]_vars

\* A Stream given messages, texts that may be malformed, and deferred elements.
ElementNext ==
    \/ StreamRender(MessageElement("error"))
    \/ \E m \in Payloads : StreamRenderText(m)
    \/ StreamRenderDeferred
    \/ \E t \in BOOLEAN : DeferredCompletes(t)

ElementSpec == SpacingInit /\ [][ElementNext]_vars

(* ------------------------- notions for the claims ---------------------- *)
\* What the current (or the just finished) Table.render call has printed.
Out == SubSeq(console, mark + 1, Len(console))

\* The option lists the current Table.render call has handed to the chooser.
Asked == SubSeq(prompts, pmark + 1, Len(prompts))

\* The table takes the paginated path: len(rows) > page_size >= 1.
Paginated == page_size # <<>> /\ page_size[1] >= 1 /\ Len(data) > page_size[1]

\* A Table.render call is blocked at a prompt or has just returned.
InTableCall == calls > 0 /\ pc \in {"prompt", "returned"}

IsBody(e) == e.kind = "table"
IsFooter(e) == e.kind = "text" /\ e.style = "dim"

\* The answers of the current call that turned a page.
Turns == {i \in 1..Len(answers) : answers[i] \in {"next", "previous"}}

\* The page shown by the k-th page render of the call, from the answers alone.
PageAt(k) ==
    Cardinality({i \in 1..(k - 1) : answers[i] = "next"})
    - Cardinality({i \in 1..(k - 1) : answers[i] = "previous"})

PageInRange(i) == 0 <= i /\ i * page_size[1] < Len(data)

\* ceil(L/P) as the one n with (n-1)*P < L <= n*P.
ExpectedTotal ==
    CHOOSE n \in 1..Len(data) :
        (n - 1) * page_size[1] < Len(data) /\ Len(data) <= n * page_size[1]

\* Rows i*P+1 .. min((i+1)*P, L) of the row set, written out index by index.
ExpectedPage(i) ==
    LET P == page_size[1]
        hi == IF (i + 1) * P < Len(data) THEN (i + 1) * P ELSE Len(data)
    IN  [j \in 1..(hi - i * P) |-> data[i * P + j]]

(* ------------------------------- C1 ------------------------------------ *)
\* C1: in a paginated render whose answers so far were all among the options
\* offered, 0 <= current_page < ceil(len(rows)/page_size) at every prompt, and
\* every footer printed by the call numbers a page in 1..ceil(len(rows)/page_size)
\* (n < ceil(L/P) is stated as n*P < L).
C1_PageInRange ==
    (InTableCall /\ Paginated /\ allOffered) =>
        /\ pc = "prompt" =>
              /\ 0 <= current_page
              /\ current_page * page_size[1] < Len(data)
        /\ \A i \in 1..Len(Out) :
              IsFooter(Out[i]) =>
                  /\ Out[i].text[2] >= 1
                  /\ (Out[i].text[2] - 1) * page_size[1] < Len(data)

\* The last of three pages is reached by offered answers only.
C1_Witness ==
    /\ pc = "prompt" /\ Paginated /\ allOffered
    /\ answers = <<"next", "next">>
    /\ current_page = 2
    /\ Len(data) = 5 /\ page_size = <<2>>

(* ------------------------------- C2 ------------------------------------ *)
\* C2: at every prompt the option list holds Next iff current_page <
\* total_pages - 1, Previous iff current_page > 0, always Done, in the order
\* Next, Previous, Done with Done last and no option twice.
C2_OptionList ==
    pc = "prompt" =>
        LET opts == prompts[Len(prompts)].options
            vals == [i \in 1..Len(opts) |-> opts[i].value]
            hasNext == current_page < total_pages - 1
            hasPrev == current_page > 0
        IN  /\ ("next" \in Range(vals)) <=> hasNext
            /\ ("previous" \in Range(vals)) <=> hasPrev
            /\ vals[Len(vals)] = "done"
            /\ Len(vals) = 1 + (IF hasNext THEN 1 ELSE 0) + (IF hasPrev THEN 1 ELSE 0)
            /\ hasNext => vals[1] = "next"
            /\ hasPrev => vals[Len(vals) - 1] = "previous"
            /\ \A i \in 1..Len(opts) :
                  opts[i].label = CASE vals[i] = "next" -> "Next →"
                                    [] vals[i] = "previous" -> "← Previous"
                                    [] OTHER -> "Done"

\* A prompt on an interior page, where all three options are offered.
C2_Witness ==
    /\ pc = "prompt"
    /\ 0 < current_page /\ current_page < total_pages - 1
    /\ Len(prompts[Len(prompts)].options) = 3

(* ------------------------------- C3 ------------------------------------ *)
\* C3: an answer 'next' moves to current_page + 1 and 'previous' to
\* current_page - 1, each with a new page render and prompt; any other answer
\* ends the loop with nothing more printed and no further prompt; and a
\* 'previous' right after a 'next' prints again the body and footer that were
\* shown before the 'next'.
C3_Transition ==
    [][(pc = "prompt" /\ Len(answers') = Len(answers) + 1) =>
         LET c == answers'[Len(answers')]
             n == Len(console')
         IN  /\ c = "next" =>
                   /\ current_page' = current_page + 1
                   /\ pc' = "prompt"
                   /\ Len(prompts') = Len(prompts) + 1
             /\ c = "previous" =>
                   /\ current_page' = current_page - 1
                   /\ pc' = "prompt"
                   /\ Len(prompts') = Len(prompts) + 1
             /\ c \notin {"next", "previous"} =>
                   /\ pc' = "returned"
                   /\ console' = console
                   /\ prompts' = prompts
             /\ (c = "previous" /\ answers # <<>> /\ answers[Len(answers)] = "next") =>
                   /\ console'[n - 1] = console'[n - 5]
                   /\ console'[n] = console'[n - 4]
      ]_vars

\* 'next', 'previous', then a value that is neither: the call has returned.
C3_Witness ==
    /\ answers = <<"next", "previous", "other">>
    /\ pc = "returned"
    /\ Len(Out) = 6

(* ------------------------------- C4 ------------------------------------ *)
\* C4: a paginated call with n page-turning answers so far has printed exactly
\* n+1 bodies and n+1 footers, alternating body, footer, and has prompted
\* exactly n+1 times, the k-th prompt coming right after the k-th footer; the
\* k-th body is built from rows[cp*P : (cp+1)*P] of the page cp shown then.
C4_EntryAction ==
    (InTableCall /\ Paginated) =>
        LET n == Cardinality(Turns)
        IN  /\ pc = "returned" => Len(answers) = n + 1
            /\ Len(Out) = 2 * (n + 1)
            /\ Len(Asked) = n + 1
            /\ \A k \in 1..(n + 1) :
                  /\ IsBody(Out[2 * k - 1])
                  /\ IsFooter(Out[2 * k])
                  /\ Asked[k].printed = mark + 2 * k
                  /\ PageInRange(PageAt(k)) =>
                        Out[2 * k - 1].rows = ExpectedPage(PageAt(k))

\* 5 rows, page_size 2, answers next, done: 2 bodies and 2 footers.
C4_Witness ==
    /\ Len(data) = 5 /\ page_size = <<2>>
    /\ answers = <<"next", "done">>
    /\ pc = "returned"
    /\ Len(SelectSeq(Out, IsBody)) = 2
    /\ Len(SelectSeq(Out, IsFooter)) = 2

(* ------------------------------- C5 ------------------------------------ *)
\* C5: the k-th footer of a paginated call is the text (after the two-space
\* indent) Page {page+1} of {ceil(L/P)} ({L} items): page+1 is the 1-based
\* index of the page whose body was printed just before it, and the item count
\* is the length of the whole row set on every page.
C5_FooterText ==
    (InTableCall /\ Paginated) =>
        /\ \A k \in 1..(Len(Out) \div 2) :
              LET f == Out[2 * k]
                  b == Out[2 * k - 1]
              IN  /\ f.text = <<"  Page ", PageAt(k) + 1, " of ", ExpectedTotal,
                                " (", Len(data), " items)">>
                  /\ PageInRange(PageAt(k)) =>
                        b.rows[1].id = (f.text[2] - 1) * page_size[1] + 1
        /\ pc = "prompt" => Out[Len(Out)].text[2] = current_page + 1

\* The footer of the last, shorter page of 5 rows still counts 5 items.
C5_Witness ==
    /\ pc = "prompt" /\ Paginated
    /\ Len(data) = 5 /\ page_size = <<2>>
    /\ Len(Out[Len(Out) - 1].rows) = 1
    /\ Out[Len(Out)].text = <<"  Page ", 3, " of ", 3, " (", 5, " items)">>

(* ------------------------------- C6 ------------------------------------ *)
\* The rows of pages i .. t-1 one after the other.
RECURSIVE PagesFrom(_, _)
PagesFrom(i, t) ==
    IF i >= t THEN <<>>
    ELSE PageRows(data, page_size[1], i) \o PagesFrom(i + 1, t)

\* The rows of the first k bodies the current call printed, one after the other.
RECURSIVE ShownRows(_)
ShownRows(k) == IF k = 0 THEN <<>> ELSE ShownRows(k - 1) \o Out[2 * k - 1].rows

\* C6: for L > P >= 1, total_pages = ceil(L/P); page i holds exactly rows
\* i*P .. min((i+1)*P, L) - 1; every page but the last has P rows, the last
\* between 1 and P, none is empty; the pages in order give the rows back, and
\* so do the bodies printed while walking forward through the pages.
C6_Partition ==
    Paginated =>
        LET P == page_size[1]
            L == Len(data)
            T == ExpectedTotal
        IN  /\ Ceil(L, P) = T
            /\ pc = "prompt" => total_pages = T
            /\ \A i \in 0..(T - 1) :
                  LET page == PageRows(data, P, i)
                  IN  /\ page = ExpectedPage(i)
                      /\ Len(page) >= 1 /\ Len(page) <= P
                      /\ i < T - 1 => Len(page) = P
            /\ PagesFrom(0, T) = data
            /\ (pc = "prompt" /\ \A i \in 1..Len(answers) : answers[i] = "next"
                /\ allOffered) =>
                  LET k == Len(answers) + 1
                  IN  ShownRows(k) = SubSeq(data, 1, IF k * P < L THEN k * P ELSE L)

\* 5 rows in pages of 2 walked to the end: bodies of 2, 2 and 1 rows.
C6_Witness ==
    /\ pc = "prompt" /\ Len(data) = 5 /\ page_size = <<2>>
    /\ answers = <<"next", "next">>
    /\ total_pages = 3
    /\ Len(Out[1].rows) = 2 /\ Len(Out[3].rows) = 2 /\ Len(Out[5].rows) = 1
    /\ ShownRows(3) = data

(* ------------------------------- C7 ------------------------------------ *)
\* C7: with a non-empty row set and page_size None or len(rows) <= page_size,
\* Table.render prints exactly one table body holding all rows, prints no
\* footer, never calls the chooser, and returns.
C7_SinglePage ==
    (calls > 0 /\ pc \in {"prompt", "returned", "raised"} /\ data # <<>>
     /\ (page_size = <<>> \/ Len(data) <= page_size[1])) =>
        /\ pc = "returned"
        /\ Len(Out) = 1
        /\ IsBody(Out[1])
        /\ Out[1].rows = data
        /\ Len(Out[1].cells) = Len(data)
        /\ Asked = <<>>
        /\ answers = <<>>

\* Three rows with page_size 3 fit one page exactly.
C7_Witness ==
    /\ pc = "returned"
    /\ Len(data) = 3 /\ page_size = <<3>>
    /\ Len(Out) = 1 /\ Out[1].rows = data
    /\ prompts = <<>>

(* ------------------------------- C8 ------------------------------------ *)
\* C8: a non-empty table with page_size 0 is rendered as one page holding all
\* rows, with no footer and no prompt, and render returns without an error.
C8_ZeroPageSize ==
    (calls > 0 /\ pc \in {"prompt", "returned", "raised"} /\ data # <<>>
     /\ page_size = <<0>>) =>
        /\ pc = "returned"
        /\ Len(Out) = 1
        /\ Out[1].rows = data
        /\ Asked = <<>>

(* ------------------------------- C9 ------------------------------------ *)
\* C9: a Table.render call on 0 rows prints nothing and does not call the
\* chooser, whatever page_size is: a direct call leaves the console and the
\* prompts as they were and returns.
C9_EmptyTable ==
    [][(calls' = calls + 1 /\ data = <<>>) =>
         /\ pc' = "returned"
         /\ Len(console') = mark'
         /\ prompts' = prompts
         /\ ~viaStream' => console' = console
      ]_vars

\* A direct render of an empty table with page_size 0 after a message.
C9_Witness ==
    /\ pc = "returned" /\ calls = 1 /\ ~viaStream
    /\ data = <<>> /\ page_size = <<0>>
    /\ Len(console) = 1 /\ mark = 1
    /\ prompts = <<>>

(* ------------------------------- C10 ----------------------------------- *)
\* C10: rendering a 0-row table through the Stream emits no lead-in blank
\* lines, even with a previous element tracked: the console is unchanged.
C10_NoLeadIn ==
    [][(calls' = calls + 1 /\ data = <<>> /\ viaStream') => console' = console]_vars

(* ------------------------------- C11 ----------------------------------- *)
\* C11: when the chooser fails at a prompt (the call leaves the prompt without
\* an answer), the failure reaches the caller of render, and the step prints
\* nothing, asks nothing more and tracks no element: what the call has printed
\* is still its pages and footers, never a body of the whole row set.
C11_ChooserFailure ==
    [][(pc = "prompt" /\ pc' # "prompt" /\ answers' = answers) =>
         /\ pc' = "raised"
         /\ err' = "ChooserError"
         /\ console' = console
         /\ prompts' = prompts
         /\ prev' = prev
         /\ Len(Out') = 2 * Len(Asked')
         /\ \A i \in 1..Len(Out') : IsBody(Out'[i]) => Out'[i].rows # data
      ]_vars

\* The chooser failed at the second prompt, after one 'next'.
C11_Witness ==
    /\ pc = "raised" /\ err = "ChooserError"
    /\ answers = <<"next">>
    /\ Len(Out) = 4 /\ Len(Asked) = 2

(* ------------------------------- C12 ----------------------------------- *)
\* The paginated table with a chooser that works and a user who does not
\* leave a prompt unanswered for ever: an answer 'done' is eventually given
\* unless the call has ended before.
LiveNext ==
    \/ TableRender
    \/ \E c \in Choices : Answer(c)

LiveSpec == Init /\ [][LiveNext]_vars /\ WF_vars(Answer("done"))

\* C12: the call returns at an answer iff that answer is neither 'next' nor
\* 'previous'; after 'next' or 'previous' the loop prints a page and a footer
\* and prompts again, on the last page too; a returned paginated call has
\* exactly one terminating answer, its last; and once the user answers 'done'
\* at a prompt the call returns.
C12_Termination ==
    /\ [][(pc = "prompt" /\ Len(answers') = Len(answers) + 1) =>
            LET c == answers'[Len(answers')]
            IN  /\ (pc' = "returned") <=> (c \notin {"next", "previous"})
                /\ c \in {"next", "previous"} =>
                      /\ pc' = "prompt"
                      /\ Len(console') = Len(console) + 2
                      /\ Len(prompts') = Len(prompts) + 1
         ]_vars
    /\ []((pc = "returned" /\ Paginated) =>
            /\ answers # <<>>
            /\ \A i \in 1..Len(answers) :
                  (answers[i] \in {"next", "previous"}) <=> (i < Len(answers)))
    /\ (pc = "prompt" ~> pc = "returned")

\* The loop went on to the last page, prompted there, and ended on 'done'.
C12_Witness ==
    /\ pc = "returned" /\ Paginated
    /\ answers = <<"next", "next", "done">>
    /\ current_page = total_pages - 1
    /\ Len(Asked) = 3

(* ------------------------------- C13 ----------------------------------- *)
\* The cells of a row under the columns of the first row of the whole row set:
\* the stringified value where the row has the key, the empty string where not.
ExpectedCells(row) ==
    [j \in 1..Len(data[1].keys) |->
        IF \E k \in 1..Len(row.keys) : row.keys[k] = data[1].keys[j]
        THEN <<"str", <<row.id, data[1].keys[j]>>>>
        ELSE <<>>]

\* C13: every body a Table.render call prints, a page body or the single
\* unpaginated body, has the title of the table and the keys of the first row
\* of the whole row set as its columns, and renders each of its rows as the
\* same cell sequence (missing key -> empty string): the one the unpaginated
\* body of the same data has for that row.
C13_SameBodies ==
    (calls > 0 /\ pc \in {"prompt", "returned", "raised"}) =>
        \A i \in 1..Len(Out) :
            IsBody(Out[i]) =>
                LET b == Out[i]
                    whole == BuildTable(data, data)
                IN  /\ b.columns = data[1].keys
                    /\ b.columns = whole.columns
                    /\ b.title = whole.title
                    /\ Len(b.cells) = Len(b.rows)
                    /\ \A r \in 1..Len(b.rows) :
                          /\ b.cells[r] = ExpectedCells(b.rows[r])
                          /\ b.cells[r] = whole.cells[b.rows[r].id]

\* A page whose own first row has a key the first row of the table lacks.
C13_Witness ==
    /\ pc = "prompt" /\ Paginated
    /\ Len(Out) >= 4
    /\ Len(Out[3].rows) >= 1
    /\ Out[3].rows[1].keys # data[1].keys
    /\ Out[3].columns = data[1].keys
    /\ \E r \in 1..Len(Out[1].rows) : \E j \in 1..Len(Out[1].columns) :
          Out[1].cells[r][j] = <<>>

(* ------------------------------- C14 ----------------------------------- *)
\* The same table rendered a second time by a direct call.
TableRenderAgain ==
    /\ NoCallRunning
    /\ calls = 1
    /\ Len(prompts) < MaxPrompts
    /\ TableRenderFrom(console, FALSE)
    /\ UNCHANGED <<data, page_size, theme, elems>>

ReplayNext ==
    \/ TableRender
    \/ TableRenderAgain
    \/ \E c \in Choices : Answer(c)
    \/ ChooserRaises

ReplaySpec == Init /\ [][ReplayNext]_vars

\* What the current call has printed and the option lists it has offered.
Shown == SelectSeq(Out, IsTableOutput)
Offered == [i \in 1..Len(Asked) |-> Asked[i].options]

\* C14: every render call starts at current_page = 0 whatever page the call
\* before ended on; the call before saw the same rows and page_size; and as
\* long as the current call has been given the answers the call before was
\* given, it has printed the same bodies and footers and offered the same
\* option lists (for an unpaginated table: the same single body, no footer).
C14_NoStateKept ==
    /\ (pc = "prompt" /\ answers = <<>>) =>
          /\ current_page = 0
          /\ Shown[Len(Shown)].text[2] = 1
    /\ (last # <<>> /\ pc \in {"prompt", "returned", "raised"}) =>
          /\ last[1].rows = data
          /\ last[1].size = page_size
          /\ (Len(answers) <= Len(last[1].answers)
              /\ answers = SubSeq(last[1].answers, 1, Len(answers))) =>
                /\ Len(Shown) <= Len(last[1].shown)
                /\ Shown = SubSeq(last[1].shown, 1, Len(Shown))
                /\ Len(Offered) <= Len(last[1].asked)
                /\ Offered = SubSeq(last[1].asked, 1, Len(Offered))

\* The first call ended on page 2 of 3; the second starts on page 1 again.
C14_Witness ==
    /\ calls = 2 /\ last # <<>>
    /\ last[1].answers = <<"next", "done">>
    /\ pc = "prompt" /\ answers = <<>>
    /\ current_page = 0
    /\ Shown = SubSeq(last[1].shown, 1, 2)

(* ------------------------- spacing in a Stream ------------------------- *)
\* What the i-th element of the stream put on the console, lead-in included.
Seg(i) ==
    SubSeq(console, trail[i].at + 1,
           IF i < Len(trail) THEN trail[i + 1].at ELSE Len(console))

\* The element's own output, and the blank lines that came before it.
OwnOutput(el) == IF el.deferred THEN DeferredOutput(el) ELSE ElementOutput(el)
Lead(i) == Len(Seg(i)) - Len(OwnOutput(trail[i].el))
LeadThenOutput(i) == Seg(i) = BlankLines(Lead(i)) \o OwnOutput(trail[i].el)

\* Elements the Stream spaces and renders itself, bypassing ones left out.
Spaced(i) == ~trail[i].el.bypass /\ ~trail[i].el.deferred

(* ------------------------------- C15 ----------------------------------- *)
\* C15: an element rendered while no previous element is tracked (the first
\* of a fresh Stream, or one that only spacers came before) gets no blank
\* line before its output, whatever its kind and whatever rules the theme has.
C15_FirstElement ==
    \A i \in 1..Len(trail) :
        (trail[i].before = <<>> /\ ~trail[i].el.deferred) =>
            /\ Lead(i) = 0
            /\ Seg(i) = ElementOutput(trail[i].el)

\* An info message first in a theme that has rules for info.
C15_Witness ==
    /\ theme = MixedRules
    /\ Len(trail) = 1
    /\ trail[1].el = MessageElement("info")
    /\ console = ElementOutput(MessageElement("info"))

(* ------------------------------- C16 ----------------------------------- *)
\* C16: a Spacer puts exactly its own lines on the console and no lead-in,
\* whatever came before it.
C16_SpacerNoLeadIn ==
    \A i \in 1..Len(trail) :
        trail[i].el.bypass =>
            /\ Lead(i) = 0
            /\ Seg(i) = SpacerRender(trail[i].el.lines)

\* Spacers first, after a transient spinner, after an info message that the
\* theme names in a rule for the spacer, and after a kind with no rule.
C16_Witness ==
    /\ theme = MixedRules
    /\ Len(trail) = 5
    /\ trail[1].el.bypass /\ trail[1].before = <<>>
    /\ trail[2].el = MessageElement("info")
    /\ trail[3].el.bypass /\ trail[3].before = <<Tracked(MessageElement("info"))>>
    /\ trail[4].el = SpinnerElement(TRUE)
    /\ trail[5].el.bypass /\ trail[5].before = <<Tracked(SpinnerElement(TRUE))>>
    /\ Len(console) = 4

(* ------------------------------- C17 ----------------------------------- *)
\* The rule the theme stores for element kind cur after kind p, if any.
HasRule(p, cur) == cur \in DOMAIN theme /\ p \in DOMAIN theme[cur]
RuleValue(p, cur) == IF HasRule(p, cur) THEN theme[cur][p] ELSE SpacingDefault

\* C17: an element after a non-transient predecessor for which the theme
\* stores no rule gets the default number of blank lines, kinds the theme
\* does not know included.
C17_DefaultSpacing ==
    \A i \in 1..Len(trail) :
        (/\ Spaced(i)
         /\ trail[i].before # <<>>
         /\ ~trail[i].before[1].transient
         /\ ~HasRule(trail[i].before[1].kind, trail[i].el.kind)) =>
            /\ Lead(i) = SpacingDefault
            /\ LeadThenOutput(i)

\* The unknown kind as predecessor and as current element.
C17_Witness ==
    /\ theme = MixedRules
    /\ Len(trail) = 3
    /\ trail[1].el = MessageElement("custom")
    /\ trail[2].el = MessageElement("info")
    /\ trail[3].el = MessageElement("custom")
    /\ Lead(2) = 1 /\ Lead(3) = 1

(* ------------------------------- C18 ----------------------------------- *)
\* C18: after a transient predecessor the element gets max(0, v - 1) blank
\* lines, v being the rule or default for the pair; one line less however
\* many transient elements came in a row, and never less than none.
C18_TransientReduction ==
    \A i \in 1..Len(trail) :
        (Spaced(i) /\ trail[i].before # <<>> /\ trail[i].before[1].transient) =>
            /\ Lead(i) = Max(0, RuleValue(trail[i].before[1].kind, trail[i].el.kind) - 1)
            /\ Lead(i) >= 0
            /\ LeadThenOutput(i)

\* v = 0 stays 0; v = 2 after two transient spinners in a row becomes 1.
C18_Witness ==
    /\ theme = MixedRules
    /\ Len(trail) = 5
    /\ trail[1].el = SpinnerElement(TRUE)
    /\ trail[2].el = MessageElement("error") /\ Lead(2) = 0
    /\ trail[3].el = SpinnerElement(TRUE)
    /\ trail[4].el = SpinnerElement(TRUE)
    /\ trail[5].el = MessageElement("info") /\ Lead(5) = 1

(* ------------------------------- C19 ----------------------------------- *)
\* C19 as stated: between a previous element of kind A and a current one of
\* kind B the blank lines are theme.spacing[A][B], else the default.
C19_PreviousThenCurrent ==
    \A i \in 1..Len(trail) :
        (Spaced(i) /\ trail[i].before # <<>> /\ ~trail[i].before[1].transient) =>
            LET A == trail[i].before[1].kind
                B == trail[i].el.kind
            IN  Lead(i) = IF A \in DOMAIN theme /\ B \in DOMAIN theme[A]
                          THEN theme[A][B] ELSE SpacingDefault

\* C19 amended: the blank lines between a previous element of kind A and a
\* current one of kind B are theme.spacing[B][A], else the default; an entry
\* under theme.spacing[A][B] has no effect on the pair unless A = B.
C19_CurrentThenPrevious ==
    \A i \in 1..Len(trail) :
        (Spaced(i) /\ trail[i].before # <<>> /\ ~trail[i].before[1].transient) =>
            LET A == trail[i].before[1].kind
                B == trail[i].el.kind
            IN  /\ Lead(i) = IF B \in DOMAIN theme /\ A \in DOMAIN theme[B]
                             THEN theme[B][A] ELSE SpacingDefault
                /\ LeadThenOutput(i)

\* theme.spacing.info = {"error": 2}: info after error gets 2 blank lines,
\* error after info gets the default.
C19_Witness ==
    /\ theme = TestRules
    /\ Len(trail) = 3
    /\ trail[1].el = MessageElement("error")
    /\ trail[2].el = MessageElement("info") /\ Lead(2) = 2
    /\ trail[3].el = MessageElement("error") /\ Lead(3) = SpacingDefault

(* ------------------------------- C20 ----------------------------------- *)
\* The tracked previous element after the first n elements of the stream.
TrackedAfter(n) ==
    LET idx == {i \in 1..n : ~trail[i].el.bypass}
    IN  IF idx = {} THEN <<>>
        ELSE <<Tracked(trail[CHOOSE i \in idx : \A j \in idx : j <= i].el)>>

\* C20: the tracked previous element is empty until a non-bypassing element
\* has been rendered and is then the kind and transient flag of the latest
\* one; each element was spaced against the pointer as it stood before it, a
\* Spacer leaving it as it was; and each render put its blank lines first and
\* its own output after them.
C20_TrackedPrevious ==
    /\ prev = TrackedAfter(Len(trail))
    /\ \A i \in 1..Len(trail) :
          /\ trail[i].before = TrackedAfter(i - 1)
          /\ ~trail[i].el.deferred =>
                Seg(i) = BlankLines(LeadIn(trail[i].before, trail[i].el))
                         \o ElementOutput(trail[i].el)

\* error after info and a Spacer: spaced by the rule for error after info.
C20_Witness ==
    /\ theme = MixedRules
    /\ Len(trail) = 3
    /\ trail[1].el = MessageElement("info")
    /\ trail[2].el = SpacerElement(1)
    /\ trail[3].el = MessageElement("error")
    /\ trail[3].before = <<Tracked(MessageElement("info"))>>
    /\ Lead(3) = 3
    /\ prev = <<Tracked(MessageElement("error"))>>

(* ------------------------------- C21 ----------------------------------- *)
\* C21: handing a deferred element to the Stream leaves the console as it
\* was, with no blank line and none of the element's output on it, and
\* leaves the prompts and the tracked previous element alone.
C21_DeferredSkipped ==
    [][(pc # "deferred" /\ pc' = "deferred") =>
          /\ console' = console
          /\ prompts' = prompts
          /\ prev' = prev
          /\ trail' = trail]_vars

\* A deferred element handed over after an error message, where an ordinary
\* element would have been given a blank line.
C21_Witness ==
    /\ pc = "deferred"
    /\ prev = <<Tracked(MessageElement("error"))>>
    /\ SpacingBefore(prev, "spinner") = 1
    /\ console = ElementOutput(MessageElement("error"))

(* ------------------------------- C22 ----------------------------------- *)
\* A message that is not a string, or is the empty string.
Malformed(m) == ~m.isStr \/ m.len = 0

\* C22: a Text with a malformed message fails with TypeError or ValueError,
\* and the failure puts nothing on the console (no blank line, no output)
\* and leaves the tracked previous element as it was.
C22_MalformedFails ==
    [][\A m \in Payloads :
          (Malformed(m) /\ StreamRenderText(m)) =>
              /\ pc' = "raised"
              /\ err' = (IF m.isStr THEN "ValueError" ELSE "TypeError")
              /\ console' = console
              /\ prev' = prev
              /\ trail' = trail]_vars

\* The empty string refused after an error message has been rendered.
C22_Witness ==
    /\ pc = "raised" /\ err = "ValueError"
    /\ prev = <<Tracked(MessageElement("error"))>>
    /\ console = ElementOutput(MessageElement("error"))
    /\ Len(trail) = 1

(* ------------------------------- C23 ----------------------------------- *)
\* The values offered at the i-th prompt of the call, and the page number
\* and page count its footer shows.
OfferedValues(i) == [j \in 1..Len(Asked[i].options) |-> Asked[i].options[j].value]
FooterPage(i) == Out[2 * i].text[2]
FooterTotal(i) == Out[2 * i].text[4]

\* C23: a call enters the navigation loop exactly when len(rows) > page_size
\* >= 1; total_pages is then at least 2 and every prompt offers at least two
\* options: Next and Done on the first page, Previous and Done on the last,
\* and Next, Previous, Done on every page between them.
C23_AtLeastTwoOptions ==
    (calls > 0 /\ pc \in {"prompt", "returned", "raised"}) =>
        /\ (Asked # <<>>) <=> Paginated
        /\ Asked # <<>> =>
              /\ total_pages >= 2
              /\ \A i \in 1..Len(Asked) :
                    /\ IsFooter(Out[2 * i])
                    /\ FooterTotal(i) = total_pages
                    /\ Len(OfferedValues(i)) >= 2
                    /\ FooterPage(i) = 1 => OfferedValues(i) = <<"next", "done">>
                    /\ FooterPage(i) = total_pages =>
                          OfferedValues(i) = <<"previous", "done">>
                    /\ (1 < FooterPage(i) /\ FooterPage(i) < total_pages) =>
                          OfferedValues(i) = <<"next", "previous", "done">>

\* One call has prompted on the first, the middle and the last of 3 pages.
C23_Witness ==
    /\ pc = "prompt" /\ Paginated
    /\ total_pages = 3
    /\ Len(Asked) = 3
    /\ FooterPage(1) = 1 /\ Len(OfferedValues(1)) = 2
    /\ FooterPage(2) = 2 /\ Len(OfferedValues(2)) = 3
    /\ FooterPage(3) = 3 /\ Len(OfferedValues(3)) = 2

(* ------------------------------- C24 ----------------------------------- *)
\* C24: whatever the chooser returns, offered or not, current_page stays in
\* 0..total_pages - 1, every page body printed holds at least one row, and
\* every footer numbers a page in 1..total_pages.
C24_PageRangeAnyAnswer ==
    (InTableCall /\ Paginated) =>
        /\ pc = "prompt" => (0 <= current_page /\ current_page <= total_pages - 1)
        /\ \A i \in 1..Len(Out) :
              /\ IsBody(Out[i]) => Out[i].rows # <<>>
              /\ IsFooter(Out[i]) =>
                    (1 <= Out[i].text[2] /\ Out[i].text[2] <= total_pages)

====
